---- MODULE Spec2Model ----
(***************************************************************************)
(* A model of the Taiyi chain SDK client (src/main.js): the TaiyiClient    *)
(* object, its handshake (connect / connectToDomain), its authenticated    *)
(* operations (activate, getStatus, querySchemas), the request dispatcher  *)
(* (#signatureRequest and the four #doRequest / #fetchResponse helpers)    *)
(* and the response parsing (#parseResponse, #getResult, #validateResult). *)
(*                                                                         *)
(* JavaScript strings are TLA+ strings and are concatenated as the code    *)
(* concatenates them.  A JavaScript value that may be null, undefined, a   *)
(* number or an object is a record tagged by its field t.  A function that *)
(* may throw is an operator returning a record whose field ok tells        *)
(* whether it returned, and whose field error is what it threw.            *)
(*                                                                         *)
(* An async function runs synchronously up to its first wait for the       *)
(* transport; that part is one action.  The only real wait is the          *)
(* transport's fetch(): a request in flight is an entry of net, answered   *)
(* by the action Respond.  A promise rejected by a synchronous throw is    *)
(* recorded as rejected in the same step.                                  *)
(***************************************************************************)
EXTENDS Integers, Sequences, FiniteSets, TLC

VARIABLES
    client,   \* the TaiyiClient object's private fields
    clock,    \* the wall clock read by new Date()
    calls,    \* the operations invoked so far, each with its promise's state
    net       \* the requests handed to fetch(), each with its answer

vars == <<client, clock, calls, net>>

---------------------------------------------------------------------------
(* Bounds of the model *)

\* operations invoked on one client
MaxCalls == 2
\* operations invoked on one client when only a session's traffic is followed
MaxSessionCalls == 3
\* dispatcher helpers invoked directly
MaxDispatches == 1
\* instants the clock passes through
MaxClock == 1
\* NewClientFromAccess calls in one run of SpecAccess, and the longest key text
MaxAccessCalls == 1
MaxKeyLen == 2

---------------------------------------------------------------------------
(* Constants of the program *)

APIVersion == "1"
projectName == "Taiyi"
headerNameSession == projectName \o "-Session"
headerNameTimestamp == projectName \o "-Timestamp"
headerNameSignature == projectName \o "-Signature"
headerNameSignatureAlgorithm == projectName \o "-SignatureAlgorithm"
defaultDomainName == "system"
defaultDomainHost == "localhost"
signatureMethodEd25519 == "ed25519"
headerContentType == "Content-Type"
contentTypeJSON == "application/json"
keyEncodeMethodEd25519Hex == "ed25519-hex"
defaultKeyEncodeMethod == keyEncodeMethodEd25519Hex
payloadPathErrorCode == "error_code"
payloadPathErrorMessage == "message"
payloadPathData == "data"
MaxPort == 65535

---------------------------------------------------------------------------
(* The inputs the model draws from *)

Hosts == {"", "h"}
Ports == {0, MaxPort, MaxPort + 1}
Domains == {"", "d"}
\* what Strings.random(16) may return
Nonces == {"nonceAAAAAAAAAAA", "nonceBBBBBBBBBBB"}
Offsets == {0}
Limits == {0, 20}
Methods == {"get", "post", "put", "delete", "patch"}

\* the credential given to NewClient
theAccessID == "access"
thePrivateKey == "key"

---------------------------------------------------------------------------
(* JavaScript values *)

Undefined == [t |-> "undefined"]
Null == [t |-> "null"]
Number(n) == [t |-> "number", v |-> n]
EmptyObject == [t |-> "object"]

\* ToBoolean, as "if (payload)" applies it
Truthy(v) ==
    CASE v.t \in {"undefined", "null"} -> FALSE
      [] v.t = "number" -> v.v # 0
      [] OTHER -> TRUE

Quote(s) == "\"" \o s \o "\""

\* JSON.stringify of the objects the program serializes, fields in insertion order
JSONstringify(v) ==
    CASE v.t = "null" -> "null"
      [] v.t = "number" -> ToString(v.v)
      [] v.t = "object" -> "{}"
      [] v.t = "condition" ->
            "{" \o Quote("offset") \o ":" \o ToString(v.offset) \o ","
                \o Quote("limit") \o ":" \o ToString(v.limit) \o "}"
      [] v.t = "requestData" ->
            "{" \o Quote("id") \o ":" \o Quote(v.id) \o ","
                \o Quote("nonce") \o ":" \o Quote(v.nonce) \o "}"
      [] v.t = "handshake" ->
            "{" \o Quote("access") \o ":" \o Quote(v.access) \o ","
                \o Quote("timestamp") \o ":" \o Quote(v.timestamp) \o ","
                \o Quote("nonce") \o ":" \o Quote(v.nonce) \o ","
                \o Quote("signature_algorithm") \o ":" \o Quote(v.signature_algorithm) \o "}"
      [] v.t = "authenticated" ->
            "{" \o Quote("id") \o ":" \o Quote(v.id) \o ","
                \o Quote("method") \o ":" \o Quote(v.method) \o ","
                \o Quote("url") \o ":" \o Quote(v.url) \o ","
                \o Quote("body") \o ":" \o Quote(v.body) \o ","
                \o Quote("access") \o ":" \o Quote(v.access) \o ","
                \o Quote("timestamp") \o ":" \o Quote(v.timestamp) \o ","
                \o Quote("nonce") \o ":" \o Quote(v.nonce) \o ","
                \o Quote("signature_algorithm") \o ":" \o Quote(v.signature_algorithm) \o "}"

\* Date.prototype.toISOString of the clock's instant
toISOString(now) == "2022-01-01T00:00:0" \o ToString(now) \o ".000Z"

\* the platform's primitives, each an injective function of its input
SHA256(s) == "sha256(" \o s \o ")"
Base64(s) == "base64(" \o s \o ")"
Ed25519Sign(content, key) == "ed25519(" \o content \o "," \o key \o ")"

Throw(e) == [ok |-> FALSE, error |-> e]

---------------------------------------------------------------------------
(* The client object *)

\* the fields of a Session
SessionFields == {"apiBase", "domain", "nonce", "sessionID", "timeout", "localIP"}

\* TaiyiClient's constructor
NewClient(accessID, privateKey) ==
    [accessID |-> accessID, privateKey |-> privateKey,
     apiBase |-> "", domain |-> "", nonce |-> "",
     sessionID |-> "", timeout |-> 0, localIP |-> ""]

mapToAPI(self, path) == self.apiBase \o path

mapToDomain(self, path) == self.apiBase \o "/domains/" \o self.domain \o path

base64Signature(self, obj) ==
    LET content == JSONstringify(obj)
        signed == Ed25519Sign(content, self.privateKey)
    IN  Base64(signed)

---------------------------------------------------------------------------
(* URLs: new URL(url) and new Request(url, options) *)

\* the absolute URLs the program can build: an origin followed by a path
URLOrigins ==
    {"http://" \o h \o ":" \o ToString(p) :
        h \in (Hosts \ {""}) \cup {defaultDomainHost},
        p \in {q \in Ports : q > 0 /\ q <= MaxPort}}

URLPaths ==
    {"/api/v" \o APIVersion \o "/sessions/"} \cup
    {"/api/v" \o APIVersion \o "/domains/" \o d \o tail :
        d \in (Domains \ {""}) \cup {defaultDomainName},
        tail \in {"schemas/", "/schemas/", "/status"}}

\* new URL(url): throws on anything but an absolute URL (a relative path, the
\* string "undefined" a missing argument turns into); pathname is the path
URL(url) ==
    IF \E o \in URLOrigins, p \in URLPaths : url = o \o p
    THEN [ok |-> TRUE,
          pathname |-> CHOOSE p \in URLPaths : \E o \in URLOrigins : url = o \o p]
    ELSE Throw("TypeError: Invalid URL")

\* a missing argument, as the string every use of it here turns it into
undefinedArgument == "undefined"

\* the Request constructor's method normalization: the standard methods
\* written in lower case are upper-cased, patch is not
NormalizeMethod(method) ==
    CASE method = "get" -> "GET"
      [] method = "post" -> "POST"
      [] method = "put" -> "PUT"
      [] method = "delete" -> "DELETE"
      [] OTHER -> method

\* new Request(url, options): a GET request cannot have a body; a string body
\* without a Content-Type header gets the text/plain one
Request(url, method, headers, body) ==
    IF body.t = "string" /\ NormalizeMethod(method) = "GET"
    THEN Throw("TypeError: Request with GET/HEAD method cannot have body")
    ELSE [ok |-> TRUE,
          request |->
            [url |-> url,
             method |-> NormalizeMethod(method),
             headers |->
                IF body.t = "string"
                   /\ ~\E i \in 1..Len(headers) : headers[i][1] = headerContentType
                THEN headers \o <<<<headerContentType, "text/plain;charset=UTF-8">>>>
                ELSE headers,
             body |-> body]]

String(s) == [t |-> "string", v |-> s]

---------------------------------------------------------------------------
(* The dispatcher *)

\* a nonce other than the session's, as a request minting its own would carry
signatureContentOwnNonce(self, method, pathname, bodyContent, timestamp) ==
    [t |-> "authenticated",
     id |-> self.sessionID,
     method |-> method,
     url |-> pathname,
     body |-> IF method \in {"post", "put", "delete", "patch"}
              THEN Base64(SHA256(bodyContent))
              ELSE "",
     access |-> self.accessID,
     timestamp |-> timestamp,
     nonce |-> CHOOSE n \in Nonces : n # self.nonce,
     signature_algorithm |-> signatureMethodEd25519]

\* the content signed with the method get whatever the request's method is
signatureContentMethodGet(self, method, pathname, bodyContent, timestamp) ==
    [t |-> "authenticated",
     id |-> self.sessionID,
     method |-> "get",
     url |-> pathname,
     body |-> IF method \in {"post", "put", "delete", "patch"}
              THEN Base64(SHA256(bodyContent))
              ELSE "",
     access |-> self.accessID,
     timestamp |-> timestamp,
     nonce |-> self.nonce,
     signature_algorithm |-> signatureMethodEd25519]

\* the digest taken only when a body is sent
signatureContentNoBodyNoDigest(self, method, pathname, bodyContent, timestamp) ==
    [t |-> "authenticated",
     id |-> self.sessionID,
     method |-> method,
     url |-> pathname,
     body |-> IF method \in {"post", "put", "delete", "patch"} /\ bodyContent # ""
              THEN Base64(SHA256(bodyContent))
              ELSE "",
     access |-> self.accessID,
     timestamp |-> timestamp,
     nonce |-> self.nonce,
     signature_algorithm |-> signatureMethodEd25519]

\* the content #signatureRequest signs: lines 229-238, its body field as
\* lines 253-256 set it
signatureContentOf(self, method, pathname, bodyContent, timestamp) ==
    [t |-> "authenticated",
     id |-> self.sessionID,
     method |-> method,
     url |-> pathname,
     body |-> IF method \in {"post", "put", "delete", "patch"}
              THEN Base64(SHA256(bodyContent))
              ELSE "",
     access |-> self.accessID,
     timestamp |-> timestamp,
     nonce |-> self.nonce,
     signature_algorithm |-> signatureMethodEd25519]

\* #signatureRequest(method, url, payload), run at instant now: the request it
\* returns and the content it signed, or what it threw
signatureRequest(self, method, url, payload, now) ==
    LET urlObject == URL(url)
        timestamp == toISOString(now)
        bodyContent == IF Truthy(payload) THEN JSONstringify(payload) ELSE ""
        made == Request(url, method,
                        IF Truthy(payload)
                        THEN <<<<"headerContentType", contentTypeJSON>>>>
                        ELSE <<>>,
                        IF Truthy(payload) THEN String(bodyContent) ELSE Undefined)
        signatureContent ==
            signatureContentOf(self, method, urlObject.pathname, bodyContent, timestamp)
        signature == base64Signature(self, signatureContent)
    IN  IF ~urlObject.ok THEN urlObject
        ELSE IF ~made.ok THEN made
        ELSE [ok |-> TRUE,
              signed |-> signatureContent,
              request |->
                [made.request EXCEPT !.headers =
                    @ \o << <<headerNameSession, self.sessionID>>,
                            <<headerNameTimestamp, timestamp>>,
                            <<headerNameSignatureAlgorithm, signatureMethodEd25519>>,
                            <<headerNameSignature, signature>> >>]]

\* #rawRequest(method, path, headers, payload): headers.append on a value that
\* is no Headers object throws, and so does reading the undeclared nil
rawRequest(self, method, path, headers, payload) ==
    LET url == mapToAPI(self, path)
    IN  IF headers.t # "Headers"
        THEN Throw("TypeError: headers.append is not a function")
        ELSE Throw("ReferenceError: nil is not defined")

---------------------------------------------------------------------------
(* Responses *)

HandshakeData == "{\"session\":\"abc\",\"timeout\":30,\"address\":\"10.0.0.2\"}"
SchemasData == "{\"schemas\":[],\"limit\":20,\"offset\":0,\"total\":0}"

\* JSON.parse of a data field
JSONparse(text) ==
    CASE text = HandshakeData ->
            [ok |-> TRUE, value |-> [session |-> "abc", timeout |-> 30, address |-> "10.0.0.2"]]
      [] text = SchemasData ->
            [ok |-> TRUE, value |-> [schemas |-> <<>>, limit |-> 20, offset |-> 0, total |-> 0]]
      [] OTHER -> Throw("SyntaxError: Unexpected token in JSON")

Envelope(code, message, data) ==
    [t |-> "envelope", error_code |-> code, message |-> message, data |-> data]

\* what the transport may answer: no response at all, or a response with its
\* status and body
Responses ==
    {[net |-> "fail"],
     [net |-> "ok", ok |-> FALSE, status |-> 500, statusText |-> "Internal Server Error",
      body |-> Envelope(0, "", SchemasData)],
     [net |-> "ok", ok |-> TRUE, status |-> 200, statusText |-> "OK",
      body |-> Envelope(0, "", SchemasData)],
     [net |-> "ok", ok |-> TRUE, status |-> 200, statusText |-> "OK",
      body |-> Envelope(0, "", HandshakeData)],
     [net |-> "ok", ok |-> TRUE, status |-> 200, statusText |-> "OK",
      body |-> Envelope(1, "denied", "")],
     [net |-> "ok", ok |-> TRUE, status |-> 200, statusText |-> "OK",
      body |-> [t |-> "malformed"]]}

\* calling a value: a boolean is not a function
CallValue(name, v) ==
    IF v \in BOOLEAN
    THEN Throw("TypeError: " \o name \o " is not a function")
    ELSE [ok |-> TRUE, value |-> v]

\* #parseResponse, from the answer of its fetch() on: the payload, or the throw
parseResponse(resp) ==
    IF resp.net = "fail" THEN Throw("TypeError: Failed to fetch")
    ELSE LET okCall == CallValue("resp.ok", resp.ok)
         IN  IF ~okCall.ok THEN okCall
             ELSE IF ~okCall.value
             THEN Throw("fetch result failed with status " \o ToString(resp.status)
                        \o ": " \o resp.statusText)
             ELSE IF resp.body.t # "envelope"
             THEN Throw("SyntaxError: Unexpected token in JSON")
             ELSE IF 0 # resp.body.error_code
             THEN Throw("fetch faile: " \o resp.body.message)
             ELSE [ok |-> TRUE, value |-> resp.body]

\* #getResult, from the answer of its fetch() on
getResult(resp) ==
    LET payload == parseResponse(resp)
    IN  IF ~payload.ok THEN payload ELSE JSONparse(payload.value.data)

---------------------------------------------------------------------------
(* The operations, each up to its wait for the transport.  The result is   *)
(* the client after it, the state of the promise it returned, the contents *)
(* it signed and the request it handed to fetch(), with the kind of the    *)
(* task that waits for the answer.                                         *)

Settled(self, status, error, signed, fetch, kind) ==
    [self |-> self, status |-> status, error |-> error,
     signed |-> signed, fetch |-> fetch, kind |-> kind]

Rejected(self, error, signed) == Settled(self, "rejected", error, signed, <<>>, "none")

\* #newNonce: the string Strings.random(16) returned, one of Nonces
newNonce(fresh) == fresh

\* connectToDomain(host, port, domainName) at instant now
\* connectToDomain with the port examined before the domain name
connectToDomainPortFirst(self, host, port, domainName, fresh, now) ==
    LET host1 == IF "" = host THEN defaultDomainHost ELSE host
        self1 == [self EXCEPT
                    !.apiBase = "http://" \o host1 \o ":" \o ToString(port)
                                \o "/api/v" \o APIVersion,
                    !.domain = domainName,
                    !.nonce = newNonce(fresh)]
        signatureContent ==
            [t |-> "handshake",
             access |-> self1.accessID,
             timestamp |-> toISOString(now),
             nonce |-> self1.nonce,
             signature_algorithm |-> signatureMethodEd25519]
        requestData == [t |-> "requestData", id |-> self1.accessID, nonce |-> self1.nonce]
        raw == rawRequest(self1, "post", "/sessions/", requestData, Undefined)
    IN  IF port <= 0 \/ port > MaxPort
        THEN Rejected(self, "invalid port " \o ToString(port), <<>>)
        ELSE IF "" = domainName THEN Rejected(self, "domain name omit", <<>>)
        ELSE IF ~raw.ok THEN Rejected(self1, raw.error, <<signatureContent>>)
        ELSE Settled(self1, "pending", "", <<signatureContent>>, <<raw.request>>,
                     "handshake")

connectToDomain(self, host, port, domainName, fresh, now) ==
    LET host1 == IF "" = host THEN defaultDomainHost ELSE host
        self1 == [self EXCEPT
                    !.apiBase = "http://" \o host1 \o ":" \o ToString(port)
                                \o "/api/v" \o APIVersion,
                    !.domain = domainName,
                    !.nonce = newNonce(fresh)]
        timestamp == toISOString(now)
        signagureAlgorithm == signatureMethodEd25519
        signatureContent ==
            [t |-> "handshake",
             access |-> self1.accessID,
             timestamp |-> timestamp,
             nonce |-> self1.nonce,
             signature_algorithm |-> signagureAlgorithm]
        signature == base64Signature(self1, signatureContent)
        requestData == [t |-> "requestData", id |-> self1.accessID, nonce |-> self1.nonce]
        headers == [t |-> "Headers",
                    list |-> << <<headerNameTimestamp, timestamp>>,
                                <<headerNameSignatureAlgorithm, signagureAlgorithm>>,
                                <<headerNameSignature, signature>> >>]
        \* the call passes three arguments: requestData arrives as headers
        raw == rawRequest(self1, "post", "/sessions/", requestData, Undefined)
    IN  IF "" = domainName THEN Rejected(self, "domain name omit", <<>>)
        ELSE IF port <= 0 \/ port > MaxPort
        THEN Rejected(self, "invalid port " \o ToString(port), <<>>)
        ELSE IF ~raw.ok THEN Rejected(self1, raw.error, <<signatureContent>>)
        ELSE Settled(self1, "pending", "", <<signatureContent>>, <<raw.request>>,
                     "handshake")

\* connect(host, port)
connect(self, host, port, fresh, now) ==
    connectToDomain(self, host, port, defaultDomainName, fresh, now)

\* lines 105-108: the handshake's answer stored
handshakeStore(self, data) ==
    [self EXCEPT !.sessionID = data.session,
                 !.timeout = data.timeout,
                 !.localIP = data.address]

\* a dispatcher that mints a nonce of its own and stores it
DispatchStoresNonce(self, built, kind) ==
    IF ~built.ok THEN Rejected(self, built.error, <<>>)
    ELSE Settled([self EXCEPT !.nonce = CHOOSE n \in Nonces : n # self.nonce],
                 IF kind = "validateResult" THEN "fulfilled" ELSE "pending",
                 "", <<built.signed>>, <<built.request>>, kind)

\* what the four dispatcher helpers do with the request #signatureRequest built
Dispatch(self, built, kind) ==
    IF ~built.ok THEN Rejected(self, built.error, <<>>)
    ELSE Settled(self,
                 IF kind = "validateResult" THEN "fulfilled" ELSE "pending",
                 "", <<built.signed>>, <<built.request>>, kind)

\* #doRequest: #validateResult starts #parseResponse and returns at once
doRequest(self, method, url, now) ==
    Dispatch(self, signatureRequest(self, method, url, Null, now), "validateResult")

doRequestWithPayload(self, method, url, payload, now) ==
    Dispatch(self, signatureRequest(self, method, url, payload, now), "validateResult")

fetchResponse(self, method, url, now) ==
    Dispatch(self, signatureRequest(self, method, url, Null, now), "getResult")

fetchResponseWithPayload(self, method, url, payload, now) ==
    Dispatch(self, signatureRequest(self, method, url, payload, now), "getResult")

\* activate(): ('put', url) is the comma expression, whose value is url
activate(self, now) ==
    LET url == mapToAPI(self, "/sessions/")
    IN  doRequest(self, url, undefinedArgument, now)

\* getStatus(): its definition lies inside the comment of lines 117-143
getStatus(self, now) ==
    Rejected(self, "TypeError: client.getStatus is not a function", <<>>)

querySchemas(self, queryStart, maxRecord, now) ==
    LET url == mapToDomain(self, "schemas/")
        condition == [t |-> "condition", offset |-> queryStart, limit |-> maxRecord]
    IN  fetchResponseWithPayload(self, "post", url, condition, now)

---------------------------------------------------------------------------
(* The state machine *)

Init ==
    /\ client = NewClient(theAccessID, thePrivateKey)
    /\ clock = 0
    /\ calls = <<>>
    /\ net = <<>>

\* an operation invoked with args, r being what it did; max bounds the run
Invoke(max, op, args, r) ==
    /\ Len(calls) < max
    /\ client' = r.self
    /\ calls' = Append(calls,
            [op |-> op, args |-> args, at |-> clock,
             before |-> client, after |-> r.self,
             status |-> r.status, error |-> r.error, value |-> Undefined,
             signed |-> r.signed,
             sent |-> IF r.fetch = <<>> THEN 0 ELSE Len(net) + 1])
    /\ net' = IF r.fetch = <<>> THEN net
              ELSE Append(net,
                    [call |-> Len(calls) + 1, kind |-> r.kind, request |-> r.fetch[1],
                     state |-> "inflight", response |-> Undefined,
                     outcome |-> Undefined])
    /\ UNCHANGED clock

Connect ==
    \E host \in Hosts, port \in Ports, fresh \in Nonces :
        Invoke(MaxCalls, "connect", <<host, port>>, connect(client, host, port, fresh, clock))

ConnectToDomain ==
    \E host \in Hosts, port \in Ports, domainName \in Domains, fresh \in Nonces :
        Invoke(MaxCalls, "connectToDomain", <<host, port, domainName>>,
               connectToDomain(client, host, port, domainName, fresh, clock))

Activate == Invoke(MaxCalls, "activate", <<>>, activate(client, clock))

GetStatus == Invoke(MaxCalls, "getStatus", <<>>, getStatus(client, clock))

QuerySchemas ==
    \E queryStart \in Offsets, maxRecord \in Limits :
        Invoke(MaxCalls, "querySchemas", <<queryStart, maxRecord>>,
               querySchemas(client, queryStart, maxRecord, clock))

\* a transport task that issues the request once more when it failed
RespondRetries ==
    \E k \in 1..Len(net), resp \in Responses :
        /\ net[k].state = "inflight"
        /\ LET e == net[k]
               out == IF e.kind = "validateResult" THEN parseResponse(resp)
                      ELSE getResult(resp)
               answered == [net EXCEPT ![k].state = "answered",
                                       ![k].response = resp,
                                       ![k].outcome = out]
               first == Cardinality({n \in 1..Len(net) : net[n].call = e.call}) = 1
           IN  IF ~out.ok /\ first
               THEN /\ net' = Append(answered,
                                [e EXCEPT !.state = "inflight"])
                    /\ UNCHANGED <<calls, client>>
               ELSE /\ net' = answered
                    /\ calls' = IF e.kind = "validateResult" THEN calls
                                ELSE [calls EXCEPT
                                        ![e.call].status = IF out.ok THEN "fulfilled"
                                                           ELSE "rejected",
                                        ![e.call].error = IF out.ok THEN "" ELSE out.error]
                    /\ UNCHANGED client
        /\ UNCHANGED clock

\* the transport answers a request in flight, and the task waiting for it runs on
Respond ==
    \E k \in 1..Len(net), resp \in Responses :
        /\ net[k].state = "inflight"
        /\ LET e == net[k]
               out == IF e.kind = "validateResult" THEN parseResponse(resp)
                      ELSE getResult(resp)
           IN  /\ net' = [net EXCEPT ![k].state = "answered",
                                     ![k].response = resp,
                                     ![k].outcome = out]
               /\ calls' = IF e.kind = "validateResult" THEN calls
                           ELSE [calls EXCEPT
                                   ![e.call].status = IF out.ok THEN "fulfilled"
                                                      ELSE "rejected",
                                   ![e.call].error = IF out.ok THEN "" ELSE out.error,
                                   ![e.call].value = IF out.ok /\ e.kind = "getResult"
                                                     THEN out.value ELSE Undefined,
                                   ![e.call].after = IF e.kind = "handshake" /\ out.ok
                                                     THEN handshakeStore(client, out.value)
                                                     ELSE @]
               /\ client' = IF e.kind = "handshake" /\ out.ok
                            THEN handshakeStore(client, out.value)
                            ELSE client
        /\ UNCHANGED clock

Tick ==
    /\ clock < MaxClock
    /\ clock' = clock + 1
    /\ UNCHANGED <<client, calls, net>>

Next ==
    \/ Connect
    \/ ConnectToDomain
    \/ Activate
    \/ GetStatus
    \/ QuerySchemas
    \/ Respond
    \/ Tick

Spec == Init /\ [][Next]_vars

---------------------------------------------------------------------------
(* One session's traffic: handshakes that pass validation and the          *)
(* authenticated operation that reaches the transport, over a longer run.  *)

SessionConnect ==
    \E fresh \in Nonces :
        Invoke(MaxSessionCalls, "connectToDomain", <<"h", MaxPort, "d">>,
               connectToDomain(client, "h", MaxPort, "d", fresh, clock))

SessionQuery ==
    \E queryStart \in Offsets, maxRecord \in Limits :
        Invoke(MaxSessionCalls, "querySchemas", <<queryStart, maxRecord>>,
               querySchemas(client, queryStart, maxRecord, clock))

NextSession ==
    \/ SessionConnect
    \/ SessionQuery
    \/ Respond
    \/ Tick

SpecSession == Init /\ [][NextSession]_vars

---------------------------------------------------------------------------
(* The dispatcher's helpers applied to every method and payload, on a      *)
(* fresh client and on the clients a handshake that passed validation      *)
(* leaves behind.                                                          *)

Payloads == {Number(0), EmptyObject, [t |-> "condition", offset |-> 0, limit |-> 20]}

DispatcherClients ==
    {NewClient(theAccessID, thePrivateKey),
     connectToDomain(NewClient(theAccessID, thePrivateKey),
                     "h", MaxPort, "d", "nonceAAAAAAAAAAA", 0).self}

\* the URL activate() builds for the helpers
DispatcherURLs(self) == {mapToAPI(self, "/sessions/")}

InitDispatcher ==
    /\ client \in DispatcherClients
    /\ clock = 0
    /\ calls = <<>>
    /\ net = <<>>

DoRequest ==
    \E method \in Methods, url \in DispatcherURLs(client) :
        Invoke(MaxDispatches, "doRequest", <<method, url, Null>>,
               doRequest(client, method, url, clock))

DoRequestWithPayload ==
    \E method \in Methods, url \in DispatcherURLs(client), payload \in Payloads :
        Invoke(MaxDispatches, "doRequestWithPayload", <<method, url, payload>>,
               doRequestWithPayload(client, method, url, payload, clock))

FetchResponse ==
    \E method \in Methods, url \in DispatcherURLs(client) :
        Invoke(MaxDispatches, "fetchResponse", <<method, url, Null>>,
               fetchResponse(client, method, url, clock))

FetchResponseWithPayload ==
    \E method \in Methods, url \in DispatcherURLs(client), payload \in Payloads :
        Invoke(MaxDispatches, "fetchResponseWithPayload", <<method, url, payload>>,
               fetchResponseWithPayload(client, method, url, payload, clock))

NextDispatcher ==
    \/ DoRequest
    \/ DoRequestWithPayload
    \/ FetchResponse
    \/ FetchResponseWithPayload
    \/ Respond
    \/ Tick

SpecDispatcher == InitDispatcher /\ [][NextDispatcher]_vars

---------------------------------------------------------------------------
(* What the claims speak of *)

CallIds == 1..Len(calls)

IsHandshake(c) == c.op \in {"connect", "connectToDomain"}

\* the port and the domain name a handshake was invoked with
PortOf(c) == c.args[2]
DomainOf(c) == IF c.op = "connect" THEN "system" ELSE c.args[3]

PassesValidation(c) == PortOf(c) >= 1 /\ PortOf(c) <= 65535 /\ DomainOf(c) # ""

SessionOf(c) == [f \in SessionFields |-> c[f]]

Unset(c) ==
    /\ c.apiBase = "" /\ c.domain = "" /\ c.nonce = ""
    /\ c.sessionID = "" /\ c.timeout = 0 /\ c.localIP = ""

\* a success status with a success envelope
SuccessResponse(r) ==
    r.net = "ok" /\ r.ok /\ r.body.t = "envelope" /\ r.body.error_code = 0

\* a non-success status, or a non-zero error_code
FailureResponse(r) ==
    r.net = "ok" /\ (~r.ok \/ (r.body.t = "envelope" /\ r.body.error_code # 0))

\* the call's request was answered, and not with a success envelope
AnsweredFailure(c) ==
    c.sent # 0 /\ net[c.sent].state = "answered" /\ ~SuccessResponse(net[c.sent].response)

SignedOf(c) == {c.signed[k] : k \in 1..Len(c.signed)}

SignedAs(c, shape) == c.signed # <<>> /\ c.signed[1].t = shape

Latest(S) == CHOOSE h \in S : \A g \in S : g <= h

HeaderValues(request, name) ==
    {request.headers[k][2] : k \in {n \in 1..Len(request.headers) : request.headers[n][1] = name}}

(* C1: connectToDomain on a fresh client, the backend not answering with a
   failure, succeeds if and only if 1 <= port <= 65535 and domainName is
   non-empty; when it fails it fails with an error and every Session field
   is still unset. *)
C1_ConnectSucceedsIffValid ==
    \A i \in CallIds :
        LET c == calls[i]
        IN  (IsHandshake(c) /\ Unset(c.before) /\ c.status # "pending" /\ ~AnsweredFailure(c))
            => /\ (c.status = "fulfilled") <=> PassesValidation(c)
               /\ c.status = "rejected" => (c.error # "" /\ Unset(c.after))

(* C2: a handshake that fails after its input passed validation delivers an
   error and leaves every Session field as it was before the call. *)
C2_FailedHandshakeCommitsNothing ==
    \A i \in CallIds :
        LET c == calls[i]
        IN  (IsHandshake(c) /\ PassesValidation(c) /\ c.status = "rejected")
            => (c.error # "" /\ SessionOf(c.after) = SessionOf(c.before))

(* C3: the content signed for a handshake has no id field; the content
   signed for an authenticated request has as id the session id the most
   recent successful handshake returned, and that id is not empty. *)
C3_SignedSessionId ==
    \A i \in CallIds :
        \A s \in SignedOf(calls[i]) :
            LET established == {h \in 1..(i - 1) :
                                  IsHandshake(calls[h]) /\ calls[h].status = "fulfilled"}
            IN  /\ s.t = "handshake" => "id" \notin DOMAIN s
                /\ s.t = "authenticated" =>
                      /\ s.id # ""
                      /\ established # {}
                      /\ s.id = calls[Latest(established)].after.sessionID

DigestMethods == {"post", "put", "delete", "patch"}

(* C4, as claimed: with a method among post, put, delete, patch and a
   non-null payload the signed body field is base64(SHA-256(JSON of the
   payload)); with method get, or with a null payload whatever the method,
   it is the empty string. *)
C4_BodyDigestOrSentinel ==
    \A i \in CallIds :
        \A s \in SignedOf(calls[i]) :
            LET method == calls[i].args[1]
                payload == calls[i].args[3]
            IN  s.t = "authenticated" =>
                  /\ (method \in DigestMethods /\ payload # Null)
                        => s.body = Base64(SHA256(JSONstringify(payload)))
                  /\ (method = "get" \/ payload = Null) => s.body = ""

(* C4, amended: a body is transmitted exactly when the payload is truthy,
   and it is then the JSON serialization of the payload; with a method among
   post, put, delete, patch the signed body field is base64(SHA-256(the
   bytes transmitted as the body)), the digest of the empty string when no
   body is sent; with method get it is the empty string. *)
C4_BodyDigestOfTransmitted ==
    \A i \in CallIds :
        \A s \in SignedOf(calls[i]) :
            LET method == calls[i].args[1]
                payload == calls[i].args[3]
                request == net[calls[i].sent].request
                transmitted == IF request.body.t = "string" THEN request.body.v ELSE ""
            IN  s.t = "authenticated" =>
                  /\ calls[i].sent # 0
                  /\ (request.body.t = "string") <=> Truthy(payload)
                  /\ Truthy(payload) => request.body.v = JSONstringify(payload)
                  /\ method \in DigestMethods => s.body = Base64(SHA256(transmitted))
                  /\ method = "get" => s.body = ""

\* a put without payload was signed, with the digest of the empty string
C4_Witness ==
    \E i \in CallIds :
        /\ calls[i].args[1] = "put" /\ calls[i].args[3] = Null
        /\ calls[i].sent # 0
        /\ SignedAs(calls[i], "authenticated")
        /\ calls[i].signed[1].body = Base64(SHA256(""))
        /\ net[calls[i].sent].request.body = Undefined

(* C5: a handshake generates one nonce, which it signs and stores; every
   authenticated content signed until the next handshake carries that nonce,
   so any two of them carry the same nonce and, for the same payload, the
   same body field; each carries the timestamp of the instant of its own
   call. *)
C5_SessionNonce ==
    /\ \A h \in CallIds :
          SignedAs(calls[h], "handshake") =>
              /\ Len(calls[h].signed) = 1
              /\ calls[h].signed[1].nonce # ""
              /\ calls[h].signed[1].nonce = calls[h].after.nonce
    /\ \A i \in CallIds :
          LET prior == {h \in 1..(i - 1) : SignedAs(calls[h], "handshake")}
          IN  SignedAs(calls[i], "authenticated") =>
                /\ prior # {}
                /\ calls[i].signed[1].nonce = calls[Latest(prior)].signed[1].nonce
                /\ calls[i].signed[1].timestamp = toISOString(calls[i].at)
    /\ \A i, j \in CallIds :
          (/\ i < j
           /\ SignedAs(calls[i], "authenticated") /\ SignedAs(calls[j], "authenticated")
           /\ ~\E h \in (i + 1)..(j - 1) : SignedAs(calls[h], "handshake"))
          => /\ calls[i].signed[1].nonce = calls[j].signed[1].nonce
             /\ calls[i].args = calls[j].args
                   => calls[i].signed[1].body = calls[j].signed[1].body

\* two requests of one session signed at two instants, with the same payload
C5_Witness ==
    \E i, j \in CallIds :
        /\ i < j
        /\ SignedAs(calls[i], "authenticated") /\ SignedAs(calls[j], "authenticated")
        /\ ~\E h \in (i + 1)..(j - 1) : SignedAs(calls[h], "handshake")
        /\ calls[i].args = calls[j].args
        /\ calls[i].signed[1].timestamp # calls[j].signed[1].timestamp
        /\ calls[i].signed[1].nonce = calls[j].signed[1].nonce
        /\ calls[i].signed[1].body = calls[j].signed[1].body

(* C6: parsing an answered response fails with the status code and status
   text on a non-success status, fails with the envelope's message on a
   success status with error_code # 0, and succeeds on a success status with
   error_code = 0: it succeeds if and only if the status is a success status
   and error_code = 0. *)
C6_ParseClassifies ==
    \A k \in 1..Len(net) :
        LET r == net[k].response
            out == net[k].outcome
        IN  (net[k].state = "answered" /\ r.net = "ok" /\ r.body.t = "envelope") =>
              /\ ~r.ok => (/\ ~out.ok
                           /\ out.error = "fetch result failed with status "
                                \o ToString(r.status) \o ": " \o r.statusText)
              /\ (r.ok /\ r.body.error_code # 0)
                    => (~out.ok /\ out.error = "fetch faile: " \o r.body.message)
              /\ (r.ok /\ r.body.error_code = 0) => out.ok
              /\ out.ok <=> (r.ok /\ r.body.error_code = 0)

(* C7: while no connect has succeeded, activate, getStatus and querySchemas
   fail with an error and hand no request to the transport. *)
C7_NoRequestBeforeConnect ==
    (~\E h \in CallIds : IsHandshake(calls[h]) /\ calls[h].status = "fulfilled")
    => \A i \in CallIds :
          calls[i].op \in {"activate", "getStatus", "querySchemas"}
          => (calls[i].sent = 0 /\ calls[i].status = "rejected" /\ calls[i].error # "")

(* C8: a no-data call completes successfully only once its response has been
   received and validated, and fails whenever the response has a non-success
   status or a non-zero error_code. *)
C8_NoDataOutcomeReachesCaller ==
    \A i \in CallIds :
        (calls[i].op \in {"activate", "doRequest", "doRequestWithPayload"}
         /\ calls[i].sent # 0)
        => LET e == net[calls[i].sent]
           IN  /\ calls[i].status = "fulfilled" => (e.state = "answered" /\ e.outcome.ok)
               /\ (e.state = "answered" /\ FailureResponse(e.response))
                     => calls[i].status = "rejected"

(* C9: activate() on a client that has an apiBase hands the transport exactly
   one request, a PUT to apiBase + "/sessions/" without body, and succeeds
   when the answer is a success envelope. *)
C9_ActivateIssuesPut ==
    \A i \in CallIds :
        (calls[i].op = "activate" /\ calls[i].before.apiBase # "")
        => /\ calls[i].sent # 0
           /\ Cardinality({k \in 1..Len(net) : net[k].call = i}) = 1
           /\ net[calls[i].sent].request.method = "PUT"
           /\ net[calls[i].sent].request.url = calls[i].before.apiBase \o "/sessions/"
           /\ net[calls[i].sent].request.body = Undefined
           /\ SignedAs(calls[i], "authenticated")
           /\ (net[calls[i].sent].state = "answered"
               /\ SuccessResponse(net[calls[i].sent].response))
                 => calls[i].status = "fulfilled"

(* C10: a handshake that passes validation hands the transport one POST to
   apiBase + "/sessions/" whose body is the JSON of {id: accessID, nonce} and
   whose timestamp, signature-algorithm and signature headers carry the
   timestamp and the algorithm of the signed handshake content, the nonce
   sent being the nonce signed. *)
C10_HandshakeRequest ==
    \A i \in CallIds :
        (IsHandshake(calls[i]) /\ PassesValidation(calls[i]))
        => /\ calls[i].sent # 0
           /\ Cardinality({k \in 1..Len(net) : net[k].call = i}) = 1
           /\ SignedAs(calls[i], "handshake")
           /\ LET request == net[calls[i].sent].request
                  s == calls[i].signed[1]
              IN  /\ request.method = "POST"
                  /\ request.url = calls[i].after.apiBase \o "/sessions/"
                  /\ request.body =
                        String(JSONstringify([t |-> "requestData",
                                              id |-> calls[i].after.accessID,
                                              nonce |-> s.nonce]))
                  /\ HeaderValues(request, "Taiyi-Timestamp") = {s.timestamp}
                  /\ HeaderValues(request, "Taiyi-SignatureAlgorithm")
                        = {s.signature_algorithm}
                  /\ HeaderValues(request, "Taiyi-Signature") # {}

(* C11: the triple (sessionID, timeout, localIP) is entirely unset or is the
   (session, timeout, address) of the most recent successful handshake
   response; a handshake that passed validation and was not answered with a
   failure is answered with a success envelope, stores the three values of
   its answer and leaves the client Established. *)
C11_HandshakeStoresTriple ==
    /\ \/ (client.sessionID = "" /\ client.timeout = 0 /\ client.localIP = "")
       \/ \E h \in CallIds :
            /\ IsHandshake(calls[h]) /\ calls[h].status = "fulfilled"
            /\ \A g \in CallIds :
                 (IsHandshake(calls[g]) /\ calls[g].status = "fulfilled") => g <= h
            /\ client.sessionID = calls[h].after.sessionID
            /\ client.timeout = calls[h].after.timeout
            /\ client.localIP = calls[h].after.localIP
    /\ \A i \in CallIds :
          LET c == calls[i]
          IN  (IsHandshake(c) /\ PassesValidation(c) /\ c.status # "pending"
               /\ ~AnsweredFailure(c))
              => /\ c.sent # 0
                 /\ c.status = "fulfilled"
                 /\ LET data == JSONparse(net[c.sent].response.body.data).value
                    IN  /\ c.after.sessionID = data.session
                        /\ c.after.timeout = data.timeout
                        /\ c.after.localIP = data.address
                        /\ c.after.sessionID # ""

\* a step that may write the Session: a handshake invoked, or its answer stored
HandshakeStep ==
    \/ Len(calls') = Len(calls) + 1 /\ IsHandshake(calls'[Len(calls')])
    \/ \E k \in 1..Len(net) :
          net[k].kind = "handshake" /\ net[k].state = "inflight"
          /\ net'[k].state = "answered"

(* C12: an authenticated operation (activate, getStatus, querySchemas),
   invoked or answered, settled either way, leaves apiBase, domain, nonce,
   sessionID, timeout and localIP as they were: only a handshake's steps
   write them. *)
C12_DispatchLeavesSession ==
    [][HandshakeStep \/ SessionOf(client') = SessionOf(client)]_vars

\* a querySchemas request was answered on a client whose session fields are set
C12_Witness ==
    \E i \in CallIds :
        /\ calls[i].op = "querySchemas"
        /\ calls[i].sent # 0
        /\ net[calls[i].sent].state = "answered"
        /\ calls[i].status = "rejected"
        /\ client.apiBase # "" /\ client.nonce # ""
        /\ SessionOf(client) = SessionOf(calls[i].before)

RequestsOf(i) == {k \in 1..Len(net) : net[k].call = i}

(* C13: an invocation of connect, connectToDomain, activate, getStatus or
   querySchemas hands the transport at most one request; when that request
   fails or its response is rejected, the invocation is rejected with that
   error and no further request of it exists. *)
C13_NoRetry ==
    \A i \in CallIds :
        calls[i].op \in {"connect", "connectToDomain", "activate", "getStatus",
                         "querySchemas"}
        => /\ Cardinality(RequestsOf(i)) <= 1
           /\ RequestsOf(i) = IF calls[i].sent = 0 THEN {} ELSE {calls[i].sent}
           /\ \A k \in RequestsOf(i) :
                 (net[k].state = "answered" /\ ~net[k].outcome.ok)
                 => /\ calls[i].status = "rejected"
                    /\ calls[i].error = net[k].outcome.error
                    /\ calls[i].error # ""

\* a request failed in the transport: its invocation is rejected with that
\* failure and has that one request only
C13_Witness ==
    \E i \in CallIds :
        /\ calls[i].sent # 0
        /\ net[calls[i].sent].state = "answered"
        /\ net[calls[i].sent].response.net = "fail"
        /\ calls[i].status = "rejected"
        /\ calls[i].error = "TypeError: Failed to fetch"
        /\ Cardinality(RequestsOf(i)) = 1

(* C14: on a client that has an apiBase and a domain, getStatus hands the
   transport a GET to apiBase + "/domains/" + domain + "/status", and
   querySchemas(offset, limit) a POST to apiBase + "/domains/" + domain +
   "/schemas/" whose body is the JSON of {offset, limit}. *)
C14_DomainScopedURLs ==
    \A i \in CallIds :
        LET c == calls[i]
            base == c.before.apiBase \o "/domains/" \o c.before.domain
        IN  c.before.apiBase # "" =>
              /\ c.op = "getStatus" =>
                    /\ c.sent # 0
                    /\ net[c.sent].request.method = "GET"
                    /\ net[c.sent].request.url = base \o "/status"
              /\ c.op = "querySchemas" =>
                    /\ c.sent # 0
                    /\ net[c.sent].request.method = "POST"
                    /\ net[c.sent].request.url = base \o "/schemas/"
                    /\ net[c.sent].request.body =
                          String(JSONstringify([t |-> "condition",
                                                offset |-> c.args[1],
                                                limit |-> c.args[2]]))

(* C15: every authenticated request carries the session-id, timestamp,
   signature-algorithm and signature headers, and carries the header
   Content-Type: application/json if and only if a body is sent with it. *)
C15_RequestHeaders ==
    \A k \in 1..Len(net) :
        LET request == net[k].request
        IN  net[k].kind # "handshake" =>
              /\ Cardinality(HeaderValues(request, "Taiyi-Session")) = 1
              /\ Cardinality(HeaderValues(request, "Taiyi-Timestamp")) = 1
              /\ Cardinality(HeaderValues(request, "Taiyi-SignatureAlgorithm")) = 1
              /\ Cardinality(HeaderValues(request, "Taiyi-Signature")) = 1
              /\ (request.body.t = "string")
                    <=> (HeaderValues(request, "Content-Type") = {"application/json"})
              /\ request.body.t # "string"
                    => HeaderValues(request, "Content-Type") = {}

----------------------------------------------------------------------------
(* NewClientFromAccess: a client from access data {id, encode_method,
   private_key}.  The key text is a sequence of one-character strings. *)

AccessIDs == {"access", "other"}
EncodeMethods == {"ed25519-hex", "ed25519", ""}
KeyChars == {"0", "a", "F", "g"}
PrivateKeys == UNION {[1..n -> KeyChars] : n \in 0..MaxKeyLen}
AccessData ==
    [id : AccessIDs, encode_method : EncodeMethods, private_key : PrivateKeys]

HexChars == <<"0", "1", "2", "3", "4", "5", "6", "7",
              "8", "9", "a", "b", "c", "d", "e", "f">>

toLowerCase(ch) ==
    CASE ch = "A" -> "a" [] ch = "B" -> "b" [] ch = "C" -> "c"
      [] ch = "D" -> "d" [] ch = "E" -> "e" [] ch = "F" -> "f"
      [] OTHER -> ch

\* parseInt(ch, 16) of one hexadecimal digit
parseHexDigit(ch) == CHOOSE v \in 0..15 : HexChars[v + 1] = toLowerCase(ch)

\* isHex without the length test
isHexAnyLength(maybeHex) ==
    \A i \in 1..Len(maybeHex) :
        \E v \in 1..16 : HexChars[v] = toLowerCase(maybeHex[i])

\* libauth: maybeHex.length % 2 === 0 && !/[^a-fA-F0-9]/u.test(maybeHex)
isHex(maybeHex) ==
    /\ Len(maybeHex) % 2 = 0
    /\ \A i \in 1..Len(maybeHex) :
          \E v \in 1..16 : HexChars[v] = toLowerCase(maybeHex[i])

\* libauth: the bytes of the two-character groups of validHex
hexToBin(validHex) ==
    [b \in 1..(Len(validHex) \div 2) |->
        16 * parseHexDigit(validHex[2 * b - 1]) + parseHexDigit(validHex[2 * b])]

NewClientFromAccess(data) ==
    IF defaultKeyEncodeMethod = data.encode_method
    THEN IF ~isHex(data.private_key)
         THEN [ok |-> FALSE, error |-> "invalid key format", value |-> Undefined]
         ELSE LET decoded == hexToBin(data.private_key)
              IN  [ok |-> TRUE, error |-> "",
                   value |-> NewClient(data.id, decoded)]
    ELSE [ok |-> FALSE,
          error |-> "unsupport encode method: " \o data.encode_method,
          value |-> Undefined]

\* no client exists before the first call; the caller holds what was returned
InitAccess ==
    /\ client = Undefined
    /\ clock = 0
    /\ calls = <<>>
    /\ net = <<>>

CallNewClientFromAccess ==
    \E data \in AccessData :
        LET r == NewClientFromAccess(data)
        IN  /\ Len(calls) < MaxAccessCalls
            /\ client' = IF r.ok THEN r.value ELSE client
            /\ calls' = Append(calls,
                    [op |-> "NewClientFromAccess", args |-> <<data>>, at |-> clock,
                     before |-> client,
                     after |-> IF r.ok THEN r.value ELSE client,
                     status |-> IF r.ok THEN "returned" ELSE "thrown",
                     error |-> r.error, value |-> r.value,
                     signed |-> <<>>, sent |-> 0])
            /\ UNCHANGED <<clock, net>>

NextAccess == CallNewClientFromAccess

SpecAccess == InitAccess /\ [][NextAccess]_vars

\* the lower-case hexadecimal text of a sequence of bytes
binToHex(bytes) ==
    [i \in 1..(2 * Len(bytes)) |->
        IF i % 2 = 1 THEN HexChars[(bytes[(i + 1) \div 2] \div 16) + 1]
                     ELSE HexChars[(bytes[i \div 2] % 16) + 1]]

\* key is the hexadecimal text of some sequence of bytes, in either case
ValidHexString(key) ==
    \E bytes \in [1..(Len(key) \div 2) -> 0..255] :
        binToHex(bytes) = [i \in 1..Len(key) |-> toLowerCase(key[i])]

(* C16: NewClientFromAccess returns a client exactly when encode_method is
   "ed25519-hex" and private_key is a valid hex string; the client then has
   the given id, the bytes the key encodes and an empty session.  Otherwise
   the call throws, returns nothing and creates no client. *)
C16_ClientIffHexKey ==
    \A i \in CallIds :
        LET c == calls[i]
            data == c.args[1]
        IN  c.op = "NewClientFromAccess" =>
              /\ (c.status = "returned")
                    <=> (data.encode_method = "ed25519-hex"
                         /\ ValidHexString(data.private_key))
              /\ c.status = "returned" =>
                    /\ c.value.accessID = data.id
                    /\ binToHex(c.value.privateKey)
                          = [k \in 1..Len(data.private_key)
                                |-> toLowerCase(data.private_key[k])]
                    /\ Unset(c.value)
                    /\ c.after = c.value
              /\ c.status # "returned" =>
                    /\ c.status = "thrown" /\ c.error # ""
                    /\ c.value = Undefined
                    /\ c.after = c.before

\* a client was returned for a key with an upper-case digit, holding its byte
C16_Witness ==
    \E i \in CallIds :
        /\ calls[i].op = "NewClientFromAccess"
        /\ calls[i].args[1].private_key = <<"a", "F">>
        /\ calls[i].status = "returned"
        /\ client = calls[i].value
        /\ client.privateKey = <<175>>

\* handshake h was answered with a success envelope of session id sid
ReturnedSession(h, sid) ==
    /\ calls[h].sent # 0
    /\ net[calls[h].sent].state = "answered"
    /\ SuccessResponse(net[calls[h].sent].response)
    /\ JSONparse(net[calls[h].sent].response.body.data).ok
    /\ JSONparse(net[calls[h].sent].response.body.data).value.session = sid

(* C17: whatever handshakes came before, failed or in flight, the content
   signed for an authenticated request carries the session id and the nonce
   of one handshake: the nonce that handshake signed and sent, the session id
   its response returned, and the request goes to that handshake's apiBase
   and domain. *)
C17_SessionAndNonceOfOneHandshake ==
    \A i \in CallIds :
        \A s \in SignedOf(calls[i]) :
            s.t = "authenticated" =>
                \E h \in 1..(i - 1) :
                    /\ SignedAs(calls[h], "handshake")
                    /\ calls[h].signed[1].nonce = s.nonce
                    /\ ReturnedSession(h, s.id)
                    /\ calls[i].before.apiBase = calls[h].after.apiBase
                    /\ calls[i].before.domain = DomainOf(calls[h])

(* C18: a connect or connectToDomain call whose input fails validation (empty
   domainName, port <= 0 or port > 65535) is rejected, signs nothing, issues
   no request and leaves every Session field as it was before the call, also
   on a client an earlier handshake has written to; an empty domainName is
   reported whatever the port is, an invalid port only with a domainName. *)
C18_ValidationRejectsWithoutEffect ==
    \A i \in CallIds :
        LET c == calls[i]
        IN  (IsHandshake(c) /\ ~PassesValidation(c)) =>
              /\ c.status = "rejected"
              /\ c.sent = 0
              /\ RequestsOf(i) = {}
              /\ c.signed = <<>>
              /\ SessionOf(c.after) = SessionOf(c.before)
              /\ DomainOf(c) = "" => c.error = "domain name omit"
              /\ DomainOf(c) # "" => c.error = "invalid port " \o ToString(PortOf(c))

\* on a client whose fields an earlier handshake wrote, a call with an empty
\* domainName and an invalid port was rejected for the domainName
C18_Witness ==
    \E i \in CallIds :
        /\ IsHandshake(calls[i])
        /\ DomainOf(calls[i]) = "" /\ PortOf(calls[i]) > 65535
        /\ calls[i].before.apiBase # "" /\ calls[i].before.nonce # ""
        /\ calls[i].error = "domain name omit"
        /\ client = calls[i].before

\* the request's session-id, timestamp and signature-algorithm headers are
\* the fields of the content signed for it, and its signature header is the
\* signature of that content
HeadersAgree(request, signed, self) ==
    /\ HeaderValues(request, "Taiyi-Session") = {signed.id}
    /\ HeaderValues(request, "Taiyi-Timestamp") = {signed.timestamp}
    /\ HeaderValues(request, "Taiyi-SignatureAlgorithm") = {signed.signature_algorithm}
    /\ HeaderValues(request, "Taiyi-Signature") = {base64Signature(self, signed)}

(* C19, as claimed: for every authenticated request the session-id,
   timestamp and signature-algorithm headers equal the signed id, timestamp
   and signature_algorithm fields, and the signed method equals the method
   of the request. *)
C19_HeadersAndMethodAsSigned ==
    \A k \in 1..Len(net) :
        LET c == calls[net[k].call]
        IN  net[k].kind # "handshake" =>
              /\ Len(c.signed) = 1
              /\ HeadersAgree(net[k].request, c.signed[1], c.before)
              /\ c.signed[1].method = net[k].request.method

(* C19, amended: the three headers equal the signed fields; the signed
   method is the method name the operation was given, in lower case, and the
   method of the request is what the Request constructor makes of that name:
   GET, POST, PUT, DELETE in upper case, patch as given. *)
C19_HeadersAsSignedMethodNormalized ==
    \A k \in 1..Len(net) :
        LET c == calls[net[k].call]
        IN  net[k].kind # "handshake" =>
              /\ Len(c.signed) = 1
              /\ HeadersAgree(net[k].request, c.signed[1], c.before)
              /\ c.signed[1].method = c.args[1]
              /\ net[k].request.method
                    = (CASE c.signed[1].method = "get" -> "GET"
                         [] c.signed[1].method = "post" -> "POST"
                         [] c.signed[1].method = "put" -> "PUT"
                         [] c.signed[1].method = "delete" -> "DELETE"
                         [] c.signed[1].method = "patch" -> "patch")

\* a post signed at instant 1 was handed to the transport as POST, stamped
\* with that instant
C19_Witness ==
    \E k \in 1..Len(net) :
        /\ calls[net[k].call].signed[1].method = "post"
        /\ net[k].request.method = "POST"
        /\ calls[net[k].call].at = 1
        /\ HeaderValues(net[k].request, "Taiyi-Timestamp") = {toISOString(1)}
        /\ calls[net[k].call].before.nonce # ""

====
